---------------------------- MODULE Spec2Model ----------------------------
(***************************************************************************)
(* The REST back end of Backend_Distribuidos as a state machine.           *)
(*                                                                         *)
(* The state is what the handlers share: the PostgreSQL tables (users,     *)
(* categories, resources, logs), the Google Cloud Storage bucket, the      *)
(* upload directory of the first revision, the wall clock read by          *)
(* Date.now(), and one record per HTTP request in flight.  A handler is an *)
(* async function: it runs without interruption up to each await on a      *)
(* database or storage call, so every awaited call is one atomic step and  *)
(* steps of different requests interleave freely.                          *)
(*                                                                         *)
(* Optional values are sequences: <<>> is "absent" (undefined / NULL),     *)
(* <<v>> is the value v.  File names are sequences of characters, a stored *)
(* path is the sequence of its '/'-separated segments.                     *)
(***************************************************************************)
EXTENDS Integers, Sequences, FiniteSets, TLC

VARIABLES
  users,       \* table users:      id -> [username, email, password]
  categories,  \* table categories: id -> [name]
  resources,   \* table resources:  id -> [title, filename, path, user_id, category_id]
  logs,        \* table logs: the sequence of action strings inserted so far
  nextId,      \* the SERIAL sequences: [users, categories, resources]
  bucket,      \* the live objects of the bucket (their names)
  uploads,     \* the files of the upload directory (revision with multer's disk storage)
  now,         \* the wall clock, in milliseconds, as Date.now() reads it
  req,         \* the requests: slot -> request record (see NewReq)
  started,     \* how many requests have been received
  posted,      \* history: username -> how many POST /api/users answered 201 for it
  freed        \* history: username -> how often a row lost it (deleted or renamed)

vars ==
  <<users, categories, resources, logs, nextId, bucket, uploads, now, req, started,
    posted, freed>>

----------------------------------------------------------------------------
(* Bounds of the model *)

\* how many requests a behaviour receives in all
MaxRequests == 2
\* the clock ticks at most up to this millisecond
MaxClock == 2

\* the slots of the requests in flight: two requests can overlap
Procs == {1, 2}

----------------------------------------------------------------------------
(* Values *)

None == <<>>
Some(v) == <<v>>
Val(o) == o[1]

\* JavaScript truthiness of an optional string held as a sequence of characters
Truthy(o) == o # None /\ Val(o) # <<>>

\* JavaScript truthiness of an optional string held as a TLA+ string
TruthyStr(o) == o # None /\ Val(o) # ""

\* JavaScript truthiness of an optional number
TruthyNum(o) == o # None /\ Val(o) # 0

bucketName == "portal-media-bucket-123"

\* `${Date.now()}-${filename.replace(/ /g, "_")}`: the clock reading and the
\* file name with every space replaced by an underscore
Sanitize(name) == [i \in DOMAIN name |-> IF name[i] = " " THEN "_" ELSE name[i]]

BlobKey(t, name) == <<t, Sanitize(name)>>

\* `https://storage.googleapis.com/${bucket.name}/${blob.name}`, split at '/'
PublicUrl(key) == <<"https:", "", "storage.googleapis.com", bucketName, key>>

\* path.split('/').pop()
Pop(path) == path[Len(path)]

\* body(...).notEmpty() of a name held as a sequence of characters
NotEmpty(o) == o # None /\ Val(o) # <<>>

\* body(...).notEmpty() of a name held as a TLA+ string
NotEmptyStr(o) == o # None /\ Val(o) # ""

\* .trim(): the string without its leading and trailing spaces
RECURSIVE TrimLeft(_)
TrimLeft(s) == IF s # <<>> /\ Head(s) = " " THEN TrimLeft(Tail(s)) ELSE s

RECURSIVE TrimRight(_)
TrimRight(s) ==
  IF s # <<>> /\ s[Len(s)] = " " THEN TrimRight(SubSeq(s, 1, Len(s) - 1)) ELSE s

Trim(s) == TrimRight(TrimLeft(s))

\* body('email').isEmail(): one "@" with something before it, and after it
\* a domain with a dot inside
IsEmail(o) ==
  /\ o # None
  /\ LET e == Val(o) IN
     \E i \in 2..Len(e) :
       /\ e[i] = "@"
       /\ \A k \in 1..Len(e) : e[k] = "@" => k = i
       /\ \A k \in 1..Len(e) : e[k] # " "
       /\ \E j \in (i + 2)..(Len(e) - 1) : e[j] = "."

\* body('password').isLength({ min: 6 })
MinPasswordLength == 6

IsLongEnough(o) == o # None /\ Len(Val(o)) >= MinPasswordLength

\* bcrypt.hash(password, salt)
Hash(password, salt) == <<"bcrypt", salt, password>>

\* body(...).isInt({ gt: 0 })
IsPosInt(o) == o # None /\ Val(o) \in Int /\ Val(o) > 0

----------------------------------------------------------------------------
(* Requests *)

NoBody ==
  [name |-> None, username |-> None, email |-> None, password |-> None,
   file |-> None, title |-> None, user_id |-> None, category_id |-> None]

\* A request: what it carries (kind, id, body), the handler's position (pc)
\* and local variables, the response (status, msg), and a record of what it
\* has done so far: the outcome of its SELECT (sel), of its upload (upl), of
\* its storage delete (del), of its INSERT / UPDATE / DELETE (db) and of its
\* log insert (log), the id of the row it inserted (rid), the row as it was
\* when the request read it (before), and whether another request was in
\* flight at the same time (overlap).
NewReq(kind, id, body) ==
  [kind |-> kind, id |-> id, body |-> body,
   pc |-> "start",
   key |-> None, oldPath |-> <<>>, newFilename |-> None, newPath |-> <<>>,
   user |-> None, hashed |-> None,
   status |-> 0, msg |-> "",
   sel |-> "none", upl |-> "none", del |-> "none", db |-> "none", log |-> "none",
   rid |-> 0, before |-> None, overlap |-> FALSE]

Idle == [NewReq("none", 0, NoBody) EXCEPT !.pc = "idle"]

Active(r) == r.pc \notin {"idle", "done"}

\* res.status(status).json({ message })
Respond(r, status, msg) == [r EXCEPT !.pc = "done", !.status = status, !.msg = msg]

----------------------------------------------------------------------------
(* What the clients send *)

FileNames == { <<"a", " ", "b">> }
Files == {None} \cup {Some(n) : n \in FileNames}
UserRefs == {None, Some(1), Some(2)}
CategoryRefs == {None, Some(1)}

\* multipart bodies of POST /api/resources: complete, or with one of file,
\* user_id and category_id missing
PostBodies ==
  {[NoBody EXCEPT !.file = f, !.user_id = u, !.category_id = Some(1)] :
     f \in Files \ {None}, u \in UserRefs \ {None}}
  \cup {[NoBody EXCEPT !.user_id = Some(1), !.category_id = Some(1)]}
  \cup {[NoBody EXCEPT !.file = f, !.category_id = Some(1)] : f \in Files \ {None}}
  \cup {[NoBody EXCEPT !.file = f, !.user_id = Some(1)] : f \in Files \ {None}}

\* multipart bodies of PUT /api/resources/:id: nothing, one of file, user_id
\* and category_id, a file with a user_id, or a title alone (no handler of
\* index.js reads a title)
PutBodies ==
  {NoBody, [NoBody EXCEPT !.category_id = Some(1)], [NoBody EXCEPT !.title = Some("t")]}
  \cup {[NoBody EXCEPT !.user_id = u] : u \in UserRefs \ {None}}
  \cup {[NoBody EXCEPT !.file = f] : f \in Files \ {None}}
  \cup {[NoBody EXCEPT !.file = f, !.user_id = Some(2)] : f \in Files \ {None}}

ResIds == {1}


\* The request in slot p takes the step that leaves it as r
Step(p, r) == req' = [req EXCEPT ![p] = r]

\* A request arrives (at most max of them): it takes the lowest free slot.  Requests in flight at
\* the same time are marked as overlapping; the records of the requests
\* answered before are dropped
Receive(p, r, max) ==
  /\ started < max
  /\ ~Active(req[p])
  /\ \A q \in Procs : q < p => Active(req[q])
  /\ started' = started + 1
  /\ req' = [q \in Procs |->
               IF q = p THEN [r EXCEPT !.overlap = \E o \in Procs \ {p} : Active(req[o])]
               ELSE IF Active(req[q]) THEN [req[q] EXCEPT !.overlap = TRUE]
               ELSE Idle]

----------------------------------------------------------------------------
(* The database schema, as far as the handlers rely on it *)

\* resources.user_id and resources.category_id reference users and
\* categories: a value with no such row is refused with error 23503
FkOk(uid, cid) ==
  /\ uid # None => Val(uid) \in DOMAIN users
  /\ cid # None => Val(cid) \in DOMAIN categories

\* users.username is unique: error 23505
UsernameTaken(name, except) ==
  \E i \in DOMAIN users \ {except} : users[i].username = name

\* a user or category still referenced by a resource cannot be deleted: error 23503
UserHasResources(id) == \E i \in DOMAIN resources : resources[i].user_id = Some(id)

CategoryHasResources(id) == \E i \in DOMAIN resources : resources[i].category_id = Some(id)

\* the function f without its argument id
Without(f, id) == [i \in DOMAIN f \ {id} |-> f[i]]

----------------------------------------------------------------------------
(* logAction, and the end of every handler that succeeded *)

SuccessStatus(kind) ==
  IF kind \in {"PostCategory", "PostUser", "PostResource"} THEN 201 ELSE 200

\* the text handed to logAction: what was done, and the id or name it names
LogText(r) ==
  [kind |-> r.kind,
   id   |-> IF r.kind = "PostResource" THEN r.rid ELSE r.id,
   name |-> IF r.kind = "PostCategory" THEN r.body.name
            ELSE IF r.kind = "PostUser" THEN r.body.username ELSE None,
   file |-> IF r.kind = "PostResource" THEN r.body.file ELSE None]

\* await logAction(...); res.status(2xx).json(...): the INSERT INTO logs
\* succeeded or threw, logAction swallowed it, the handler responds
LogMutantThrows(r, ok) ==
  IF ok THEN Respond([r EXCEPT !.log = "ok"], SuccessStatus(r.kind), "ok")
  ELSE Respond([r EXCEPT !.log = "fail"], 500, "internal")

AfterLog(r, ok) ==
  Respond([r EXCEPT !.log = IF ok THEN "ok" ELSE "fail"], SuccessStatus(r.kind), "ok")

LogAction(p) ==
  /\ req[p].pc = "log"
  /\ \E ok \in BOOLEAN :
       /\ logs' = IF ok THEN Append(logs, LogText(req[p])) ELSE logs
       /\ Step(p, AfterLog(req[p], ok))
       /\ posted' = IF req[p].kind = "PostUser" /\ AfterLog(req[p], ok).status = 201
                    THEN [posted EXCEPT ![Val(req[p].body.username)] = @ + 1] ELSE posted
  /\ UNCHANGED <<users, categories, resources, nextId, bucket, uploads, now, started, freed>>

----------------------------------------------------------------------------
(* POST /api/resources *)

\* the validators, the file check, and the object name chosen at time t
PostResourceStart(r, t) ==
  IF ~IsPosInt(r.body.user_id) \/ ~IsPosInt(r.body.category_id)
  THEN Respond(r, 400, "validation")
  ELSE IF r.body.file = None
  THEN Respond(r, 400, "no_file")
  ELSE [r EXCEPT !.pc = "post_upload", !.key = Some(BlobKey(t, Val(r.body.file)))]

PostResource(p, max) ==
  /\ \E b \in PostBodies :
       Receive(p, PostResourceStart(NewReq("PostResource", 0, b), now), max)
  /\ UNCHANGED <<users, categories, resources, logs, nextId, bucket, uploads, now, freed, posted>>

\* the write stream finished or emitted an error
PostUploadMutantIgnoresError(r, ok) ==
  [r EXCEPT !.pc = "post_insert", !.upl = IF ok THEN "ok" ELSE "fail"]

PostAfterUpload(r, ok) ==
  IF ok THEN [r EXCEPT !.pc = "post_insert", !.upl = "ok"]
  ELSE Respond([r EXCEPT !.upl = "fail"], 500, "internal")

PostUpload(p) ==
  /\ req[p].pc = "post_upload"
  /\ \E ok \in BOOLEAN :
       /\ bucket' = IF ok THEN bucket \cup {Val(req[p].key)} ELSE bucket
       /\ Step(p, PostAfterUpload(req[p], ok))
  /\ UNCHANGED <<users, categories, resources, logs, nextId, uploads, now, started, freed, posted>>

\* the catch block of POST /api/resources
PostResourceCatch(r, code) ==
  IF code = "fk" THEN Respond([r EXCEPT !.db = code], 400, "fk_missing")
  ELSE Respond([r EXCEPT !.db = code], 500, "internal")

\* the row the INSERT writes
PostResourceRow(r) ==
  [title |-> None, filename |-> Val(r.body.file), path |-> PublicUrl(Val(r.key)),
   user_id |-> r.body.user_id, category_id |-> r.body.category_id]

PostInsert(p) ==
  /\ req[p].pc = "post_insert"
  /\ \E fault \in BOOLEAN :
       LET r == req[p]
           code == IF fault THEN "err"
                   ELSE IF ~FkOk(r.body.user_id, r.body.category_id) THEN "fk" ELSE "ok"
       IN IF code = "ok"
          THEN /\ resources' = resources @@ (nextId.resources :> PostResourceRow(r))
               /\ nextId' = [nextId EXCEPT !.resources = @ + 1]
               /\ Step(p, [r EXCEPT !.pc = "log", !.db = "ok", !.rid = nextId.resources])
          ELSE /\ Step(p, PostResourceCatch(r, code))
               /\ UNCHANGED <<resources, nextId>>
  /\ UNCHANGED <<users, categories, logs, bucket, uploads, now, started, freed, posted>>

----------------------------------------------------------------------------
(* PUT /api/resources/:id *)

PutResourceStart(r) == [r EXCEPT !.pc = "put_select"]

PutResource(p, max) ==
  /\ \E id \in ResIds, b \in PutBodies :
       Receive(p, PutResourceStart(NewReq("PutResource", id, b)), max)
  /\ UNCHANGED <<users, categories, resources, logs, nextId, bucket, uploads, now, freed, posted>>

\* the fields of the dynamic UPDATE: filename, path, user_id, category_id
PutFields(r) ==
  (IF Truthy(r.newFilename) THEN {"filename"} ELSE {})
    \cup (IF r.newPath # <<>> THEN {"path"} ELSE {})
    \cup (IF TruthyNum(r.body.user_id) THEN {"user_id"} ELSE {})
    \cup (IF TruthyNum(r.body.category_id) THEN {"category_id"} ELSE {})

\* with the fields built: nothing to update, or the UPDATE comes next
PutBuild(r) ==
  IF PutFields(r) = {} THEN Respond(r, 400, "no_fields")
  ELSE [r EXCEPT !.pc = "put_update"]

\* after the SELECT of the old path, at time t
PutAfterSelect(r, found, path, t) ==
  IF ~found THEN Respond(r, 404, "not_found")
  ELSE IF r.body.file # None
  THEN [r EXCEPT !.oldPath = path, !.newFilename = r.body.file,
                 !.key = Some(BlobKey(t, Val(r.body.file))), !.pc = "put_upload"]
  ELSE PutBuild([r EXCEPT !.oldPath = path])

\* the catch block of PUT /api/resources/:id
PutResourceCatch(r, code) == Respond([r EXCEPT !.db = code], 500, "internal")

PutSelect(p) ==
  /\ req[p].pc = "put_select"
  /\ \E fault \in BOOLEAN :
       LET r == req[p]
           found == r.id \in DOMAIN resources
           seen == [r EXCEPT !.sel = IF fault THEN "err" ELSE IF found THEN "ok" ELSE "norow",
                             !.before = IF ~fault /\ found THEN Some(resources[r.id]) ELSE None]
       IN Step(p, IF fault THEN Respond(seen, 500, "internal")
                  ELSE PutAfterSelect(seen, found, IF found THEN resources[r.id].path ELSE <<>>, now))
  /\ UNCHANGED <<users, categories, resources, logs, nextId, bucket, uploads, now, started, freed, posted>>

PutUploadMutantIgnoresError(r, ok) ==
  [r EXCEPT !.upl = IF ok THEN "ok" ELSE "fail", !.newPath = PublicUrl(Val(r.key)),
            !.pc = IF r.oldPath # <<>> THEN "put_delete" ELSE "put_update"]

\* the write stream finished (the new path is known, the old object is
\* deleted next if there is an old path) or emitted an error
PutAfterUpload(r, ok) ==
  IF ok
  THEN [r EXCEPT !.upl = "ok", !.newPath = PublicUrl(Val(r.key)),
                 !.pc = IF r.oldPath # <<>> THEN "put_delete" ELSE "put_update"]
  ELSE Respond([r EXCEPT !.upl = "fail"], 500, "internal")

PutUpload(p) ==
  /\ req[p].pc = "put_upload"
  /\ \E ok \in BOOLEAN :
       /\ bucket' = IF ok THEN bucket \cup {Val(req[p].key)} ELSE bucket
       /\ Step(p, PutAfterUpload(req[p], ok))
  /\ UNCHANGED <<users, categories, resources, logs, nextId, uploads, now, started, freed, posted>>

\* bucket.file(name).delete() answers: an object that is not there cannot
\* be deleted, one that is there is deleted or the call fails
DeleteOutcomes(name) == IF name \in bucket THEN BOOLEAN ELSE {FALSE}

PutDeleteMutantAborts(r, ok) ==
  IF ok THEN [r EXCEPT !.del = "ok", !.pc = "put_update"]
  ELSE Respond([r EXCEPT !.del = "fail"], 500, "internal")

\* the delete of the old object succeeded, or threw and was caught
PutAfterDelete(r, ok) ==
  [r EXCEPT !.del = IF ok THEN "ok" ELSE "fail", !.pc = "put_update"]

PutDeleteOld(p) ==
  /\ req[p].pc = "put_delete"
  /\ \E ok \in DeleteOutcomes(Pop(req[p].oldPath)) :
       /\ bucket' = IF ok THEN bucket \ {Pop(req[p].oldPath)} ELSE bucket
       /\ Step(p, PutAfterDelete(req[p], ok))
  /\ UNCHANGED <<users, categories, resources, logs, nextId, uploads, now, started, freed, posted>>

PutRowMutantKeepsPath(row, r) ==
  [row EXCEPT
     !.filename = IF "filename" \in PutFields(r) THEN Val(r.newFilename) ELSE @,
     !.user_id = IF "user_id" \in PutFields(r) THEN r.body.user_id ELSE @,
     !.category_id = IF "category_id" \in PutFields(r) THEN r.body.category_id ELSE @]

\* the row after UPDATE resources SET <fields>
PutResourceRow(row, r) ==
  [row EXCEPT
     !.filename = IF "filename" \in PutFields(r) THEN Val(r.newFilename) ELSE @,
     !.path = IF "path" \in PutFields(r) THEN r.newPath ELSE @,
     !.user_id = IF "user_id" \in PutFields(r) THEN r.body.user_id ELSE @,
     !.category_id = IF "category_id" \in PutFields(r) THEN r.body.category_id ELSE @]

\* the UPDATE found the row or not
PutAfterUpdate(r, found) ==
  IF found THEN [r EXCEPT !.db = "ok", !.pc = "log"]
  ELSE Respond([r EXCEPT !.db = "norow"], 404, "not_found")

PutUpdate(p) ==
  /\ req[p].pc = "put_update"
  /\ \E fault \in BOOLEAN :
       LET r == req[p]
           found == r.id \in DOMAIN resources
           code == IF fault THEN "err"
                   ELSE IF found /\ ~FkOk(IF "user_id" \in PutFields(r) THEN r.body.user_id ELSE None,
                                          IF "category_id" \in PutFields(r) THEN r.body.category_id ELSE None)
                   THEN "fk" ELSE "ok"
       IN IF code = "ok"
          THEN /\ resources' = IF found
                               THEN [resources EXCEPT ![r.id] = PutResourceRow(@, r)]
                               ELSE resources
               /\ Step(p, PutAfterUpdate(r, found))
          ELSE /\ Step(p, PutResourceCatch(r, code))
               /\ UNCHANGED resources
  /\ UNCHANGED <<users, categories, logs, nextId, bucket, uploads, now, started, freed, posted>>

----------------------------------------------------------------------------
(* DELETE /api/resources/:id *)

DeleteResourceStart(r) == [r EXCEPT !.pc = "del_select"]

DeleteResource(p, max) ==
  /\ \E id \in ResIds :
       Receive(p, DeleteResourceStart(NewReq("DeleteResource", id, NoBody)), max)
  /\ UNCHANGED <<users, categories, resources, logs, nextId, bucket, uploads, now, freed, posted>>

\* after the SELECT of the path: the object is deleted first if the row has one
DeleteAfterSelect(r, found, path) ==
  IF found /\ path # <<>> THEN [r EXCEPT !.oldPath = path, !.pc = "del_object"]
  ELSE [r EXCEPT !.pc = "del_row"]

DeleteSelect(p) ==
  /\ req[p].pc = "del_select"
  /\ \E fault \in BOOLEAN :
       LET r == req[p]
           found == r.id \in DOMAIN resources
           seen == [r EXCEPT !.sel = IF fault THEN "err" ELSE IF found THEN "ok" ELSE "norow",
                             !.before = IF ~fault /\ found THEN Some(resources[r.id]) ELSE None]
       IN Step(p, IF fault THEN Respond(seen, 500, "internal")
                  ELSE DeleteAfterSelect(seen, found, IF found THEN resources[r.id].path ELSE <<>>))
  /\ UNCHANGED <<users, categories, resources, logs, nextId, bucket, uploads, now, started, freed, posted>>

\* the delete of the object succeeded, or threw and was caught
DeleteAfterObject(r, ok) ==
  [r EXCEPT !.del = IF ok THEN "ok" ELSE "fail", !.pc = "del_row"]

DeleteObject(p) ==
  /\ req[p].pc = "del_object"
  /\ \E ok \in DeleteOutcomes(Pop(req[p].oldPath)) :
       /\ bucket' = IF ok THEN bucket \ {Pop(req[p].oldPath)} ELSE bucket
       /\ Step(p, DeleteAfterObject(req[p], ok))
  /\ UNCHANGED <<users, categories, resources, logs, nextId, uploads, now, started, freed, posted>>

\* DELETE FROM resources found the row or not, or threw
DeleteAfterRow(r, code) ==
  IF code = "ok" THEN [r EXCEPT !.db = "ok", !.pc = "log"]
  ELSE IF code = "norow" THEN Respond([r EXCEPT !.db = code], 404, "not_found")
  ELSE Respond([r EXCEPT !.db = code], 500, "internal")

DeleteRow(p) ==
  /\ req[p].pc = "del_row"
  /\ \E fault \in BOOLEAN :
       LET r == req[p]
           code == IF fault THEN "err"
                   ELSE IF r.id \in DOMAIN resources THEN "ok" ELSE "norow"
       IN /\ resources' = IF code = "ok" THEN Without(resources, r.id) ELSE resources
          /\ Step(p, DeleteAfterRow(r, code))
  /\ UNCHANGED <<users, categories, logs, nextId, bucket, uploads, now, started, freed, posted>>

----------------------------------------------------------------------------
(* What the clients send to /api/users and /api/categories *)

Usernames == {None, Some("ana"), Some("bob")}
Emails == {None, Some(<<"x">>), Some(<<"b", "@", "c", ".", "d">>)}
Passwords == {None, Some(<<"a", "b", "c">>), Some(<<"q", "w", "e", "r", "t", "y">>)}
Salts == {1, 2}
UserIds == {1, 2}

PostUserBodies ==
  {[NoBody EXCEPT !.username = u, !.email = Some(<<"b", "@", "c", ".", "d">>),
                  !.password = Some(<<"q", "w", "e", "r", "t", "y">>)] : u \in Usernames}
  \cup {[NoBody EXCEPT !.username = Some("bob"), !.email = e, !.password = w] :
          e \in Emails \ {None}, w \in Passwords \ {None}}

\* bodies of PUT /api/users/:id: nothing, a username, an email, or an email
\* and a password that POST /api/users would refuse
PutUserBodies ==
  {NoBody, [NoBody EXCEPT !.username = Some("bob")],
   [NoBody EXCEPT !.email = Some(<<"b", "@", "c", ".", "d">>)],
   [NoBody EXCEPT !.email = Some(<<"x">>), !.password = Some(<<"a", "b", "c">>)]}

CategoryNames == {None, Some(<<" ">>), Some(<<"n">>)}
CategoryIds == {1, 2}

----------------------------------------------------------------------------
(* POST /api/users *)

\* the validators, then the hash of the password under the salt drawn
PostUserStart(r, salt) ==
  IF ~NotEmptyStr(r.body.username) \/ ~IsEmail(r.body.email) \/ ~IsLongEnough(r.body.password)
  THEN Respond(r, 400, "validation")
  ELSE [r EXCEPT !.pc = "user_insert", !.hashed = Some(Hash(Val(r.body.password), salt))]

PostUser(p, max) ==
  /\ \E b \in PostUserBodies, salt \in Salts :
       Receive(p, PostUserStart(NewReq("PostUser", 0, b), salt), max)
  /\ UNCHANGED <<users, categories, resources, logs, nextId, bucket, uploads, now, freed, posted>>

PostUserCatchMutantNoDuplicateCase(r, code) ==
  Respond([r EXCEPT !.db = code], 500, "internal")

\* the catch block of POST /api/users
PostUserCatch(r, code) ==
  IF code = "dup" THEN Respond([r EXCEPT !.db = code], 400, "dup_username")
  ELSE Respond([r EXCEPT !.db = code], 500, "internal")

UserInsert(p) ==
  /\ req[p].pc = "user_insert"
  /\ \E fault \in BOOLEAN :
       LET r == req[p]
           code == IF fault THEN "err"
                   ELSE IF UsernameTaken(Val(r.body.username), 0) THEN "dup" ELSE "ok"
       IN IF code = "ok"
          THEN /\ users' = users @@ (nextId.users :>
                             [username |-> Val(r.body.username), email |-> Val(r.body.email),
                              password |-> Val(r.hashed)])
               /\ nextId' = [nextId EXCEPT !.users = @ + 1]
               /\ Step(p, [r EXCEPT !.pc = "log", !.db = "ok", !.rid = nextId.users])
          ELSE /\ Step(p, PostUserCatch(r, code))
               /\ UNCHANGED <<users, nextId>>
  /\ UNCHANGED <<categories, resources, logs, bucket, uploads, now, started, freed, posted>>

----------------------------------------------------------------------------
(* PUT /api/users/:id *)

PutUserStart(r) == [r EXCEPT !.pc = "user_select"]

PutUser(p, max) ==
  /\ \E id \in UserIds, b \in PutUserBodies :
       Receive(p, PutUserStart(NewReq("PutUser", id, b)), max)
  /\ UNCHANGED <<users, categories, resources, logs, nextId, bucket, uploads, now, freed, posted>>

\* username || user.username, email || user.email, and the stored hash
\* unless a password is given, which is hashed under the salt drawn
PutUserValues(r, user, salt) ==
  [username |-> IF TruthyStr(r.body.username) THEN Val(r.body.username) ELSE user.username,
   email    |-> IF Truthy(r.body.email) THEN Val(r.body.email) ELSE user.email,
   password |-> IF Truthy(r.body.password) THEN Hash(Val(r.body.password), salt)
                ELSE user.password]

\* after the SELECT of the user
PutUserAfterSelect(r, found, user, salt) ==
  IF ~found THEN Respond(r, 404, "not_found")
  ELSE [r EXCEPT !.user = Some(PutUserValues(r, user, salt)), !.pc = "user_update"]

UserSelect(p) ==
  /\ req[p].pc = "user_select"
  /\ \E fault \in BOOLEAN, salt \in Salts :
       LET r == req[p]
           found == r.id \in DOMAIN users
           seen == [r EXCEPT !.sel = IF fault THEN "err" ELSE IF found THEN "ok" ELSE "norow",
                             !.before = IF ~fault /\ found THEN Some(users[r.id]) ELSE None]
       IN Step(p, IF fault THEN Respond(seen, 500, "internal")
                  ELSE PutUserAfterSelect(seen, found, IF found THEN users[r.id] ELSE None, salt))
  /\ UNCHANGED <<users, categories, resources, logs, nextId, bucket, uploads, now, started,
                 freed, posted>>

\* the catch block of PUT /api/users/:id
PutUserCatch(r, code) ==
  IF code = "dup" THEN Respond([r EXCEPT !.db = code], 400, "dup_username_other")
  ELSE Respond([r EXCEPT !.db = code], 500, "internal")

\* UPDATE users SET username, email, password: the handler does not look at
\* the row count
UserUpdate(p) ==
  /\ req[p].pc = "user_update"
  /\ \E fault \in BOOLEAN :
       LET r == req[p]
           found == r.id \in DOMAIN users
           code == IF fault THEN "err"
                   ELSE IF found /\ UsernameTaken(Val(r.user).username, r.id) THEN "dup"
                   ELSE "ok"
       IN IF code = "ok"
          THEN /\ users' = IF found THEN [users EXCEPT ![r.id] = Val(r.user)] ELSE users
               /\ freed' = IF found /\ users[r.id].username # Val(r.user).username
                           THEN [freed EXCEPT ![users[r.id].username] = @ + 1] ELSE freed
               /\ Step(p, [r EXCEPT !.pc = "log", !.db = "ok"])
          ELSE /\ Step(p, PutUserCatch(r, code))
               /\ UNCHANGED <<users, freed>>
  /\ UNCHANGED <<categories, resources, logs, nextId, bucket, uploads, now, started, posted>>

----------------------------------------------------------------------------
(* DELETE /api/users/:id and DELETE /api/categories/:id *)

DeleteUserStart(r) == [r EXCEPT !.pc = "user_delete"]

DeleteUser(p, max) ==
  /\ \E id \in UserIds : Receive(p, DeleteUserStart(NewReq("DeleteUser", id, NoBody)), max)
  /\ UNCHANGED <<users, categories, resources, logs, nextId, bucket, uploads, now, freed, posted>>

\* after DELETE FROM users / categories: the row count, and the catch block
DeleteAfterStatement(r, code) ==
  IF code = "ok" THEN [r EXCEPT !.db = "ok", !.pc = "log"]
  ELSE IF code = "norow" THEN Respond([r EXCEPT !.db = code], 404, "not_found")
  ELSE IF code = "fk" THEN Respond([r EXCEPT !.db = code], 400, "has_dependents")
  ELSE Respond([r EXCEPT !.db = code], 500, "internal")

UserDelete(p) ==
  /\ req[p].pc = "user_delete"
  /\ \E fault \in BOOLEAN :
       LET r == req[p]
           code == IF fault THEN "err"
                   ELSE IF r.id \notin DOMAIN users THEN "norow"
                   ELSE IF UserHasResources(r.id) THEN "fk" ELSE "ok"
       IN /\ users' = IF code = "ok" THEN Without(users, r.id) ELSE users
          /\ freed' = IF code = "ok" THEN [freed EXCEPT ![users[r.id].username] = @ + 1]
                      ELSE freed
          /\ Step(p, DeleteAfterStatement(r, code))
  /\ UNCHANGED <<categories, resources, logs, nextId, bucket, uploads, now, started, posted>>

DeleteCategoryStart(r) == [r EXCEPT !.pc = "cat_delete"]

DeleteCategory(p, max) ==
  /\ \E id \in CategoryIds :
       Receive(p, DeleteCategoryStart(NewReq("DeleteCategory", id, NoBody)), max)
  /\ UNCHANGED <<users, categories, resources, logs, nextId, bucket, uploads, now, freed, posted>>

CategoryDelete(p) ==
  /\ req[p].pc = "cat_delete"
  /\ \E fault \in BOOLEAN :
       LET r == req[p]
           code == IF fault THEN "err"
                   ELSE IF r.id \notin DOMAIN categories THEN "norow"
                   ELSE IF CategoryHasResources(r.id) THEN "fk" ELSE "ok"
       IN /\ categories' = IF code = "ok" THEN Without(categories, r.id) ELSE categories
          /\ Step(p, DeleteAfterStatement(r, code))
  /\ UNCHANGED <<users, resources, logs, nextId, bucket, uploads, now, started, freed, posted>>

----------------------------------------------------------------------------
(* POST /api/categories and PUT /api/categories/:id *)

\* body('name').notEmpty().trim(): the check comes first, then the trimming
CategoryStart(r, pc) ==
  IF ~NotEmpty(r.body.name) THEN Respond(r, 400, "validation")
  ELSE [r EXCEPT !.body.name = Some(Trim(Val(r.body.name))), !.pc = pc]

PostCategory(p, max) ==
  /\ \E n \in CategoryNames :
       Receive(p, CategoryStart(NewReq("PostCategory", 0, [NoBody EXCEPT !.name = n]),
                                "cat_insert"), max)
  /\ UNCHANGED <<users, categories, resources, logs, nextId, bucket, uploads, now, freed, posted>>

\* the catch block of POST and PUT on /api/categories
CategoryCatch(r, code) == Respond([r EXCEPT !.db = code], 500, "internal")

CategoryInsert(p) ==
  /\ req[p].pc = "cat_insert"
  /\ \E fault \in BOOLEAN :
       LET r == req[p] IN
       IF fault
       THEN /\ Step(p, CategoryCatch(r, "err"))
            /\ UNCHANGED <<categories, nextId>>
       ELSE /\ categories' = categories @@ (nextId.categories :> [name |-> Val(r.body.name)])
            /\ nextId' = [nextId EXCEPT !.categories = @ + 1]
            /\ Step(p, [r EXCEPT !.pc = "log", !.db = "ok", !.rid = nextId.categories])
  /\ UNCHANGED <<users, resources, logs, bucket, uploads, now, started, freed, posted>>

PutCategory(p, max) ==
  /\ \E id \in CategoryIds, n \in CategoryNames :
       Receive(p, CategoryStart(NewReq("PutCategory", id, [NoBody EXCEPT !.name = n]),
                                "cat_update"), max)
  /\ UNCHANGED <<users, categories, resources, logs, nextId, bucket, uploads, now, freed, posted>>

CategoryUpdateMutantLogsAnyway(r, found) ==
  [r EXCEPT !.db = IF found THEN "ok" ELSE "norow", !.pc = "log"]

\* UPDATE categories SET name: the row count
CategoryAfterUpdate(r, found) ==
  IF found THEN [r EXCEPT !.db = "ok", !.pc = "log"]
  ELSE Respond([r EXCEPT !.db = "norow"], 404, "not_found")

CategoryUpdate(p) ==
  /\ req[p].pc = "cat_update"
  /\ \E fault \in BOOLEAN :
       LET r == req[p]
           found == r.id \in DOMAIN categories
       IN IF fault
          THEN /\ Step(p, CategoryCatch(r, "err"))
               /\ UNCHANGED categories
          ELSE /\ categories' = IF found
                                THEN [categories EXCEPT ![r.id].name = Val(r.body.name)]
                                ELSE categories
               /\ Step(p, CategoryAfterUpdate(r, found))
  /\ UNCHANGED <<users, resources, logs, nextId, bucket, uploads, now, started, freed, posted>>

----------------------------------------------------------------------------
(* The upload router: POST / with multer({ dest: uploadPath }) *)

\* the names multer's disk storage gives to the files it writes
DiskNames == {"f1", "f2", "f3"}

uploadPath == "uploads"

\* upload.single('file') has run before the handler: req.file is set when the
\* body carries a file, which is then already on the disk under the name given
RouterStart(r, name) ==
  IF ~Truthy(r.body.file) THEN Respond(r, 400, "no_file")
  ELSE [r EXCEPT !.pc = "router_insert", !.upl = "ok",
                 !.newFilename = r.body.file, !.newPath = <<uploadPath, name>>]

RouterPost(p, max) ==
  /\ \E b \in PostBodies, name \in DiskNames \ uploads :
       /\ Receive(p, RouterStart(NewReq("RouterPost", 0, b), name), max)
       /\ uploads' = IF Truthy(b.file) THEN uploads \cup {name} ELSE uploads
  /\ UNCHANGED <<users, categories, resources, logs, nextId, bucket, now, freed, posted>>

\* res.json({ ok: true }), or the catch block
RouterAfterInsert(r, code) ==
  IF code = "ok" THEN Respond([r EXCEPT !.db = code], 200, "ok")
  ELSE Respond([r EXCEPT !.db = code], 500, "db_error")

RouterInsert(p) ==
  /\ req[p].pc = "router_insert"
  /\ \E fault \in BOOLEAN :
       LET r == req[p]
           code == IF fault THEN "err"
                   ELSE IF ~FkOk(r.body.user_id, r.body.category_id) THEN "fk" ELSE "ok"
       IN /\ resources' =
               IF code = "ok"
               THEN resources @@ (nextId.resources :>
                      [title |-> r.body.title, filename |-> Val(r.newFilename),
                       path |-> r.newPath, user_id |-> r.body.user_id,
                       category_id |-> r.body.category_id])
               ELSE resources
          /\ nextId' = IF code = "ok" THEN [nextId EXCEPT !.resources = @ + 1] ELSE nextId
          /\ Step(p, RouterAfterInsert([r EXCEPT !.rid = IF code = "ok" THEN nextId.resources
                                                         ELSE 0], code))
  /\ UNCHANGED <<users, categories, logs, bucket, uploads, now, started, freed, posted>>

----------------------------------------------------------------------------
(* The clock *)

Tick ==
  /\ now < MaxClock
  /\ now' = now + 1
  /\ UNCHANGED <<users, categories, resources, logs, nextId, bucket, uploads, req, started,
                 freed, posted>>

----------------------------------------------------------------------------
(* The server of src/index.js under requests on /api/resources *)

Init ==
  /\ users = (1 :> [username |-> "ana", email |-> <<"a", "@", "b", ".", "c">>,
                    password |-> Hash(<<"s", "e", "c", "r", "e", "t">>, 1)])
  /\ categories = (1 :> [name |-> <<"d">>])
  /\ resources = (1 :> [title |-> None, filename |-> <<"a", "_", "b">>,
                        path |-> PublicUrl(BlobKey(0, <<"a", "_", "b">>)),
                        user_id |-> Some(1), category_id |-> Some(1)])
  /\ logs = << >>
  /\ nextId = [users |-> 2, categories |-> 2, resources |-> 2]
  /\ bucket = {BlobKey(0, <<"a", "_", "b">>)}
  /\ uploads = {}
  /\ now = 1
  /\ req = [p \in Procs |-> Idle]
  /\ started = 0
  /\ posted = [u \in {"ana", "bob"} |-> 0]
  /\ freed = [u \in {"ana", "bob"} |-> 0]

Next ==
  \/ Tick
  \/ \E p \in Procs :
       \/ PostResource(p, MaxRequests) \/ PostUpload(p) \/ PostInsert(p)
       \/ PutResource(p, MaxRequests) \/ PutSelect(p) \/ PutUpload(p)
       \/ PutDeleteOld(p) \/ PutUpdate(p)
       \/ DeleteResource(p, MaxRequests) \/ DeleteSelect(p) \/ DeleteObject(p) \/ DeleteRow(p)
       \/ LogAction(p)

Spec == Init /\ [][Next]_vars

----------------------------------------------------------------------------
(* Properties of the resource handlers *)

Quiet == \A p \in Procs : ~Active(req[p])

Answered(r) == r.pc = "done"

\* C1: every resources row whose path is non-null names an object that is in
\* the bucket.  Stated here for the states in which no request is in flight,
\* where no handler is half way through its steps.
C1_PathsAreLive ==
  Quiet => \A i \in DOMAIN resources :
             resources[i].path # <<>> => Pop(resources[i].path) \in bucket

\* C3: a POST or PUT on /api/resources whose upload failed has answered 500
\* and has issued no INSERT or UPDATE and no log insert.
C3_UploadFailureWritesNothing ==
  \A p \in Procs :
    req[p].upl = "fail" =>
      /\ Answered(req[p]) /\ req[p].status = 500
      /\ req[p].db = "none" /\ req[p].log = "none"

C3_Witness ==
  \E p, q \in Procs :
    /\ req[p].kind = "PostResource" /\ req[p].upl = "fail" /\ Answered(req[p])
    /\ req[q].kind = "PutResource" /\ req[q].upl = "fail" /\ Answered(req[q])

\* C4: after a PUT with a file that ran alone on a resource with an old path
\* and answered 200, a delete of the old object was attempted, the new
\* object is in the bucket, and the row's path is the new locator and not
\* the old one.
C4_PutReplacesFile ==
  \A p \in Procs :
    LET r == req[p] IN
    (/\ r.kind = "PutResource" /\ Answered(r) /\ r.status = 200
     /\ r.body.file # None /\ r.oldPath # <<>> /\ ~r.overlap)
    => /\ r.del # "none"
       /\ Val(r.key) \in bucket
       /\ r.id \in DOMAIN resources
       /\ resources[r.id].path = PublicUrl(Val(r.key))
       /\ resources[r.id].path # r.oldPath

\* the fields of the resource a PUT body supplies
Supplied(b) ==
  (IF b.title # None THEN {"title"} ELSE {})
    \cup (IF b.file # None THEN {"file"} ELSE {})
    \cup (IF b.user_id # None THEN {"user_id"} ELSE {})
    \cup (IF b.category_id # None THEN {"category_id"} ELSE {})

\* the columns a supplied field stands for
ColumnsOf(field) == IF field = "file" THEN {"filename", "path"} ELSE {field}

\* C5: a PUT that supplies exactly one field of an existing resource (no
\* database or storage call failing, the referenced user and category
\* existing) answers 200, and when it ran alone every other column of the
\* row is as it was before the request.
C5_SingleFieldPut ==
  \A p \in Procs :
    LET r == req[p] IN
    (/\ r.kind = "PutResource" /\ Answered(r)
     /\ Cardinality(Supplied(r.body)) = 1
     /\ r.sel = "ok" /\ r.upl # "fail" /\ r.db \notin {"err", "fk", "norow"})
    => /\ r.status = 200
       /\ ~r.overlap =>
            \A f \in {"title", "filename", "path", "user_id", "category_id"} :
              (\A s \in Supplied(r.body) : f \notin ColumnsOf(s))
                => resources[r.id][f] = Val(r.before)[f]

\* C8: a POST or PUT on /api/resources whose INSERT or UPDATE was refused
\* with a foreign-key violation answers 400.
C8_ForeignKeyIs400 ==
  \A p \in Procs :
    (req[p].kind \in {"PostResource", "PutResource"} /\ req[p].db = "fk" /\ Answered(req[p]))
      => req[p].status = 400

\* the response a resource PUT or DELETE owes to the outcome of its UPDATE
\* or DELETE statement alone
StatusFor(db) == IF db = "ok" THEN 200 ELSE IF db = "norow" THEN 404 ELSE 500

\* C9: a PUT or DELETE on /api/resources whose storage delete failed goes on
\* to its UPDATE or DELETE statement, and its response is the one that the
\* outcome of that statement calls for, as when the storage delete succeeds.
C9_StorageDeleteFailureIgnored ==
  \A p \in Procs :
    LET r == req[p] IN
    (r.kind \in {"PutResource", "DeleteResource"} /\ r.del # "none") =>
      /\ r.pc \in {"put_update", "del_row", "log", "done"}
      /\ r.pc \in {"log", "done"} => r.db # "none"
      /\ Answered(r) => r.status = StatusFor(r.db)

C9_Witness ==
  \E p, q \in Procs :
    /\ req[p].kind = "PutResource" /\ req[p].del = "fail" /\ req[p].status = 200
    /\ req[q].kind = "DeleteResource" /\ req[q].del = "fail" /\ req[q].status = 200

----------------------------------------------------------------------------
(* The server of src/index.js under requests on /api/users *)

\* how many requests on /api/users a behaviour receives in all
MaxUserRequests == 3

NextUsers ==
  \E p \in Procs :
    \/ PostUser(p, MaxUserRequests) \/ UserInsert(p)
    \/ PutUser(p, MaxUserRequests) \/ UserSelect(p) \/ UserUpdate(p)
    \/ DeleteUser(p, MaxUserRequests) \/ UserDelete(p)
    \/ LogAction(p)

SpecUsers == Init /\ [][NextUsers]_vars

----------------------------------------------------------------------------
(* The server of src/index.js under requests on every mutating endpoint, one
   request at a time *)

OneAtATime == {1}

NextApi ==
  \/ Tick
  \/ \E p \in OneAtATime :
       \/ PostCategory(p, MaxRequests) \/ CategoryInsert(p)
       \/ PutCategory(p, MaxRequests) \/ CategoryUpdate(p)
       \/ DeleteCategory(p, MaxRequests) \/ CategoryDelete(p)
       \/ PostUser(p, MaxRequests) \/ UserInsert(p)
       \/ PutUser(p, MaxRequests) \/ UserSelect(p) \/ UserUpdate(p)
       \/ DeleteUser(p, MaxRequests) \/ UserDelete(p)
       \/ PostResource(p, MaxRequests) \/ PostUpload(p) \/ PostInsert(p)
       \/ PutResource(p, MaxRequests) \/ PutSelect(p) \/ PutUpload(p)
       \/ PutDeleteOld(p) \/ PutUpdate(p)
       \/ DeleteResource(p, MaxRequests) \/ DeleteSelect(p) \/ DeleteObject(p) \/ DeleteRow(p)
       \/ LogAction(p)

SpecApi == Init /\ [][NextApi]_vars

----------------------------------------------------------------------------
(* The upload router on its own *)

NextRouter == \E p \in Procs : RouterPost(p, MaxRequests) \/ RouterInsert(p)

SpecRouter == Init /\ [][NextRouter]_vars

----------------------------------------------------------------------------
(* Properties of the create handlers, the users handlers and the logger *)

\* C2: a resource-create request, to the server or to the upload router,
\* that lacks the file, the user_id or the category_id is answered 400, and
\* it has issued no INSERT and written nothing to the bucket or to the upload
\* directory.
C2_MissingFieldIs400 ==
  \A p \in Procs :
    LET r == req[p] IN
    (/\ r.kind \in {"PostResource", "RouterPost"} /\ Answered(r)
     /\ (r.body.file = None \/ r.body.user_id = None \/ r.body.category_id = None))
    => r.status = 400 /\ r.db = "none" /\ r.upl = "none"

\* C6: the UPDATE of a PUT /api/users/:id leaves each of username, email and
\* password that the body did not supply as it was in the row immediately
\* before that UPDATE, whatever ran between the request's SELECT and its
\* UPDATE.
C6_PutUserKeepsUnsupplied ==
  [][\A p \in Procs :
       (req[p].pc = "user_update" /\ req'[p].pc = "log" /\ req[p].id \in DOMAIN users)
       => \A f \in {"username", "email", "password"} :
            req[p].body[f] = None => users'[req[p].id][f] = users[req[p].id][f]]_vars

\* C7 as stated: of the POST /api/users requests with one username, at most
\* one responds 201.
C7_AtMostOne201 == \A u \in DOMAIN posted : posted[u] <= 1

\* C7, amended: no two users rows have the same username; a username has
\* been answered 201 at most once more often than a row has lost it (by
\* DELETE or by a PUT that renamed it); and a POST whose INSERT was refused
\* as a duplicate responds 400 with the duplicate-username message.
C7_UsernameUnique ==
  /\ \A i, j \in DOMAIN users : users[i].username = users[j].username => i = j
  /\ \A u \in DOMAIN posted : posted[u] <= 1 + freed[u]
  /\ \A p \in Procs :
       (req[p].kind = "PostUser" /\ Answered(req[p])) =>
         /\ req[p].db = "dup" => req[p].status = 400 /\ req[p].msg = "dup_username"
         /\ req[p].status = 201 => req[p].db = "ok"

C7_Witness ==
  \E p \in Procs :
    /\ req[p].kind = "PostUser" /\ Answered(req[p])
    /\ req[p].body.username = Some("bob") /\ posted["bob"] = 1
    /\ req[p].db = "dup" /\ req[p].status = 400

\* C10: the log insert of a mutating endpoint, failing or not, leaves the
\* users, categories and resources tables as they are, and the response is
\* the endpoint's success status either way.
C10_LogFailureIgnored ==
  [][\A p \in Procs :
       req[p].pc = "log" /\ req'[p] # req[p]
       => /\ UNCHANGED <<users, categories, resources>>
          /\ Answered(req'[p])
          /\ req'[p].status = SuccessStatus(req[p].kind)]_vars

C10_Witness ==
  \E p \in Procs :
    /\ Answered(req[p]) /\ req[p].log = "fail" /\ logs = <<>>
    /\ req[p].kind = "DeleteCategory" /\ req[p].status = 200
    /\ categories = <<>>

----------------------------------------------------------------------------
(* Properties of the stored data, of the order of a handler's steps, and of
   the objects in the bucket *)

\* the plaintext a stored hash was derived from
PlainOf(hash) == hash[3]

\* C11: every users row has an email of email shape and a password hash
\* derived from a plaintext of at least 6 characters, and every resources
\* row has a user_id and a category_id that are positive integers or null; a
\* request on /api/users or /api/resources whose body breaks one of these
\* rules is answered 400 with no statement run and nothing uploaded.
C11_StoredDataValid ==
  /\ \A i \in DOMAIN users :
       IsEmail(Some(users[i].email)) /\ IsLongEnough(Some(PlainOf(users[i].password)))
  /\ \A i \in DOMAIN resources :
       /\ resources[i].user_id # None => IsPosInt(resources[i].user_id)
       /\ resources[i].category_id # None => IsPosInt(resources[i].category_id)
  /\ \A p \in Procs :
       LET r == req[p] IN
       (/\ r.kind \in {"PostUser", "PutUser"} /\ Answered(r)
        /\ \/ (r.body.email # None /\ ~IsEmail(r.body.email))
           \/ (r.body.password # None /\ ~IsLongEnough(r.body.password)))
       => r.status = 400 /\ r.sel = "none" /\ r.db = "none"

\* C12: in a PUT /api/resources/:id that uploads a new file, the delete of
\* the old object is attempted only after the request's UPDATE has
\* succeeded, and the log insert only after both.
C12_CleanupAfterPersist ==
  \A p \in Procs :
    LET r == req[p] IN
    (r.kind = "PutResource" /\ r.body.file # None) =>
      /\ r.del # "none" => r.upl = "ok" /\ r.db = "ok"
      /\ r.log # "none" => r.db = "ok"

\* no resources row has a path that names the object k
Unreferenced(k) ==
  \A i \in DOMAIN resources : resources[i].path = <<>> \/ Pop(resources[i].path) # k

\* p and q are two PUT on one resource, each with a file, that read the same
\* old path, uploaded under two names other than the old one and other than
\* those in the rows of the other resources, and answered 200
BothReplaced(p, q) ==
  /\ p # q
  /\ req[p].kind = "PutResource" /\ req[q].kind = "PutResource"
  /\ req[p].id = req[q].id
  /\ req[p].body.file # None /\ req[q].body.file # None
  /\ Answered(req[p]) /\ req[p].status = 200
  /\ Answered(req[q]) /\ req[q].status = 200
  /\ req[p].oldPath # <<>> /\ req[p].oldPath = req[q].oldPath
  /\ req[p].key # req[q].key
  /\ Val(req[p].key) # Pop(req[p].oldPath) /\ Val(req[q].key) # Pop(req[q].oldPath)
  /\ \A i \in DOMAIN resources \ {req[p].id} :
       resources[i].path = <<>>
         \/ Pop(resources[i].path) \notin {Val(req[p].key), Val(req[q].key)}

\* of two such requests, q is the one whose locator the row holds, and the
\* object of p is in the bucket with no row naming it
Orphaned(p, q) ==
  /\ req[q].id \in DOMAIN resources
  /\ resources[req[q].id].path = PublicUrl(Val(req[q].key))
  /\ Val(req[p].key) \in bucket
  /\ Unreferenced(Val(req[p].key))

\* C13: when two PUT on one resource, each with a file, have read the same
\* old path and both uploaded and answered 200, the row's path is the locator
\* of one of them and the object of the other is an orphan; the UPDATE of a
\* PUT with a file leaves its own locator in the row (so the last one wins);
\* and no step removes an object that no row names and that no request in
\* flight has read as its old path.
C13_LoserIsOrphaned ==
  /\ [](\A p, q \in Procs : BothReplaced(p, q) => Orphaned(p, q) \/ Orphaned(q, p))
  /\ [][/\ \A p \in Procs :
             (/\ req[p].pc = "put_update" /\ req'[p].pc = "log"
              /\ req[p].body.file # None)
             => resources'[req[p].id].path = PublicUrl(Val(req[p].key))
        /\ \A k \in bucket :
             (/\ Unreferenced(k)
              /\ \A p \in Procs :
                   Active(req[p]) => req[p].oldPath = <<>> \/ Pop(req[p].oldPath) # k)
             => k \in bucket']_vars

C13_Witness == \E p, q \in Procs : BothReplaced(p, q) /\ Orphaned(p, q)

\* C14: in every mutating handler the log insert is attempted only after the
\* request's INSERT, UPDATE or DELETE has succeeded, and before the response:
\* a request that has answered 2xx has attempted it (once: a request makes
\* one pass through its steps), one that has answered 4xx or 5xx has not; and
\* every step leaves the logs as they are or appends one entry.
C14_LogAfterMutation ==
  /\ [](\A p \in Procs :
          /\ req[p].log # "none" => req[p].db = "ok" /\ Answered(req[p])
          /\ Answered(req[p]) =>
               (req[p].status \in {200, 201} <=> req[p].log # "none")
          /\ Answered(req[p]) => req[p].status \in {200, 201, 400, 404, 500})
  /\ [][\/ logs' = logs
        \/ /\ Len(logs') = Len(logs) + 1
           /\ SubSeq(logs', 1, Len(logs)) = logs
           /\ \E p \in Procs : req[p].pc = "log" /\ req'[p].log = "ok"]_vars

C14_Witness ==
  \E p \in Procs :
    /\ req[p].kind = "DeleteResource" /\ Answered(req[p])
    /\ req[p].status = 200 /\ req[p].log = "ok" /\ Len(logs) = 2

\* C15: no upload of a POST or PUT on /api/resources writes to a name that
\* holds an object, and no two resources rows have the same path.
C15_KeysCollisionFree ==
  /\ [](\A i, j \in DOMAIN resources :
          (resources[i].path # <<>> /\ resources[i].path = resources[j].path) => i = j)
  /\ [][\A p \in Procs :
          (req[p].pc \in {"post_upload", "put_upload"} /\ req'[p].upl = "ok")
          => Val(req[p].key) \notin bucket]_vars

\* C16: a PUT or DELETE on /api/resources/:id that has answered 404 has
\* uploaded no object and attempted no storage delete.
C16_NotFoundTouchesNoObject ==
  \A p \in Procs :
    (/\ req[p].kind \in {"PutResource", "DeleteResource"}
     /\ Answered(req[p]) /\ req[p].status = 404)
    => req[p].upl = "none" /\ req[p].del = "none"

\* every object in the bucket is named by the path of exactly one row
NoOrphan ==
  \A k \in bucket :
    \E i \in DOMAIN resources :
      /\ resources[i].path # <<>> /\ Pop(resources[i].path) = k
      /\ \A j \in DOMAIN resources :
           (resources[j].path # <<>> /\ Pop(resources[j].path) = k) => j = i

\* C17, for the first request after the start (the store starts with one row
\* and its object): when it has completed with no storage delete failing,
\* whatever its outcome, every object in the bucket is named by the path of
\* exactly one row.
C17_NoOrphanOneAtATime ==
  (started = 1 /\ Answered(req[1]) /\ req[1].del # "fail") => NoOrphan

====
